---------------------------- MODULE Spec2Model ----------------------------
(***************************************************************************)
(* The HTTP layer of the financial-market analysis service (src/app.py)    *)
(* and the collaborators it calls.  app.py is modelled from its code.  The *)
(* orchestration engine (models/forum_engine.py), the agents and the tools *)
(* are imported by app.py but their code is not part of src/; they are     *)
(* modelled from spec.md (sections 3 to 7) and marked so in the map.       *)
(*                                                                         *)
(* JSON objects are functions from key strings to values, so that "key in  *)
(* data" is k \in DOMAIN data and "not data" is an empty domain.  An       *)
(* optional value is a sequence of length 0 (None) or 1.                   *)
(***************************************************************************)
EXTENDS Naturals, Sequences, FiniteSets, TLC

\* ---------------------------------------------------------------- bounds
\* Number of analyze requests that may be in flight in one process.
NumReqs == 2

\* Number of report-agent invocations (and so of reports) in one run.
MaxReports == 2

\* Number of threads serving the user-profile endpoints.
NumProcs == 2

Reqs == 1..NumReqs

Procs == 1..NumProcs

\* ------------------------------------------------------------ JSON helpers
None == <<>>

Some(x) == <<x>>

\* The empty JSON object {}; a request without a JSON body (get_json()
\* returning None) is falsy in the same way and is represented by it too.
EmptyObj == [k \in {} |-> ""]

\* Python's "not data" for a JSON object.
IsFalsy(data) == DOMAIN data = {}

\* data.get(key, None)
GetOpt(data, key) == IF key \in DOMAIN data THEN Some(data[key]) ELSE None

\* ------------------------------------------------ analyze: request inputs
\* Raw query texts sent without a profile: empty, unparseable, well-formed
\* without a resolvable subject, two tickers.
Queries == {"", "??", "hello", "AAPL MSFT"}

\* Raw query texts sent with a profile: one ticker.
ProfiledQueries == {"AAPL"}

AnalyzeProfiles == {[risk_tolerance |-> "low"]}

\* Bodies POSTed to /api/analyze: no body / {}, a body without "query",
\* a body with "query" and optionally "user_profile".
AnalyzeBodies ==
    {EmptyObj}
    \cup {[user_profile |-> p] : p \in AnalyzeProfiles}
    \cup {[query |-> q] : q \in Queries}
    \cup {[query |-> q, user_profile |-> p] : q \in ProfiledQueries, p \in AnalyzeProfiles}

\* ---------------------------------------------- engine (from spec.md 4.x)
\* QueryInterpreter: MalformedQueryError when raw_text is empty or
\* unparseable (spec 4.1).
IsMalformed(raw_text) == raw_text \in {"", "??"}

\* QueryInterpreter: the ordered tickers a raw text resolves to; a text with
\* no resolvable subject yields the empty sequence (spec 4.1).
ResolveEntities(raw_text) ==
    CASE raw_text = "AAPL" -> <<"AAPL">>
      [] raw_text = "AAPL MSFT" -> <<"AAPL", "MSFT">>
      [] OTHER -> <<>>

\* interpret(raw_text, profile?) -> Query (spec 3, 4.1)
InterpretQuery(raw_text, profile) ==
    [raw_text |-> raw_text,
     resolved_entities |-> ResolveEntities(raw_text),
     intent_tag |-> IF ResolveEntities(raw_text) = <<>> THEN "generic" ELSE "analysis",
     personalized |-> profile # None]

\* Outcome of the provider calls for one entity (spec 4.2): the sub-result
\* is present, or absent after a provider failure or timeout.
FetchOutcomes == {"ok", "absent"}

\* DataStage: the MarketDataset keeps the entities whose sub-result is
\* present, in entity order (spec 4.2: partial datasets are legal).
RECURSIVE BuildDataset(_, _)
BuildDataset(entities, outcomes) ==
    IF entities = <<>> \/ outcomes = <<>> THEN <<>>
    ELSE (IF Head(outcomes) = "ok" THEN <<Head(entities)>> ELSE <<>>)
         \o BuildDataset(Tail(entities), Tail(outcomes))

\* DataStage raises DataUnavailableError iff there are entities and every
\* one of them failed (spec 4.2, 4.5).
DataTotallyFailed(entities, outcomes) ==
    /\ entities # <<>>
    /\ Len(outcomes) = Len(entities)
    /\ \A i \in DOMAIN outcomes : outcomes[i] = "absent"

\* MediaStage outcomes (spec 4.3, 4.5): artifacts, or a stage-local failure
\* (InsufficientDataError, budget exceeded).  Zero usable points always fail.
MediaOutcomes(dataset) ==
    IF dataset = <<>> THEN {"failed"} ELSE {"ok", "failed"}

\* InsightStage outcomes (spec 4.4, 4.5): it never raises; sparse data yields
\* fewer insights, possibly none; the time budget may abandon it.
InsightOutcomes(dataset) ==
    IF dataset = <<>> THEN {"none", "abandoned"} ELSE {"none", "trend", "abandoned"}

MediaArtifacts(dataset, mediaOut) ==
    IF mediaOut = "ok" THEN [i \in DOMAIN dataset |-> [type |-> "chart", spec |-> dataset[i]]]
    ELSE <<>>

Insights(dataset, insightOut, q) ==
    IF insightOut = "trend"
    THEN <<[category |-> "trend", evidence |-> Head(dataset), personalized |-> q.personalized]>>
    ELSE <<>>

\* partial_failures in a fixed stage order (spec 3, 4.5).
PartialFailures(mediaOut, insightOut) ==
    (IF mediaOut = "failed" THEN <<[stage |-> "media", reason |-> "InsufficientDataError"]>> ELSE <<>>)
    \o (IF insightOut = "abandoned" THEN <<[stage |-> "insight", reason |-> "timeout"]>> ELSE <<>>)

\* Result assembly (spec 3, 4.5, 6): the AggregatedResult-shaped object with
\* the top-level keys generate_report requires.
AssembleResult(q, dataset, mediaOut, insightOut) ==
    [query_data |-> [query |-> q, dataset |-> dataset],
     analysis_results |-> [media_artifacts |-> MediaArtifacts(dataset, mediaOut), tables |-> <<>>],
     insights |-> Insights(dataset, insightOut, q),
     partial_failures |-> PartialFailures(mediaOut, insightOut)]


\* ------------------------------------------------------------------ state
VARIABLES
    apc,          \* analyze request: position of its handler / pipeline
    abody,        \* analyze request: the JSON body (data)
    user_query,   \* analyze_market local user_query
    user_profile, \* analyze_market local user_profile
    query,        \* engine: the Query produced by the interpreter
    fetched,      \* engine: per-entity outcomes of DataStage so far
    mediaOut,     \* engine: MediaStage outcome ("pending" until it ran)
    insightOut,   \* engine: InsightStage outcome ("pending" until it ran)
    calls,        \* number of external provider calls made for the request
    result,       \* analyze_market local result (process_query's return value)
    aresp,        \* analyze request: the HTTP response
    rbody,        \* generate_report: the JSON body (data) of the latest request
    rresp,        \* generate_report: the latest HTTP response
    agentCalls,   \* number of report_agent.generate_report invocations
    agentArgs,    \* arguments of the latest report_agent invocation
    reports,      \* report store: identifier -> stored report
    nextId,       \* report agent: source of fresh identifiers
    gresp,        \* get_report: the latest HTTP response
    dirExists,    \* file system: the directory user_data exists
    files,        \* file system: user_data/<user_id>.json, per user_id
    ppc,          \* profile endpoint thread: position in its handler
    ploc,         \* profile endpoint thread: the handler's locals
    presp,        \* profile endpoint thread: the HTTP response
    lastOk,       \* history: profile of the latest successful save, per user_id
    everSaved,    \* history: a save for the user_id was ever served
    tainted,      \* history: a save for the user_id supplied an unencodable profile
    psnap         \* history: what a get_user_profile call saw when it started

avars == <<apc, abody, user_query, user_profile, query, fetched, mediaOut,
           insightOut, calls, result, aresp>>

rvars == <<rbody, rresp, agentCalls, agentArgs, reports, nextId, gresp>>

pvars == <<dirExists, files, ppc, ploc, presp, lastOk, everSaved, tainted, psnap>>

vars == <<avars, rvars, pvars>>

NoResp == [status |-> 0, body |-> EmptyObj]

AnalyzeInit ==
    /\ apc = [r \in Reqs |-> "idle"]
    /\ abody = [r \in Reqs |-> EmptyObj]
    /\ user_query = [r \in Reqs |-> ""]
    /\ user_profile = [r \in Reqs |-> None]
    /\ query = [r \in Reqs |-> InterpretQuery("", None)]
    /\ fetched = [r \in Reqs |-> <<>>]
    /\ mediaOut = [r \in Reqs |-> "pending"]
    /\ insightOut = [r \in Reqs |-> "pending"]
    /\ calls = [r \in Reqs |-> 0]
    /\ result = [r \in Reqs |-> EmptyObj]
    /\ aresp = [r \in Reqs |-> NoResp]

\* ------------------------------------------------- analyze_market (app.py)
\* Faulty variant of line 59: an empty query is treated as a missing one.
AnalyzeValidNonEmpty(data) ==
    ~IsFalsy(data) /\ "query" \in DOMAIN data /\ data["query"] # ""

\* line 59: the request is served only if data is truthy and has "query".
AnalyzeValid(data) == ~IsFalsy(data) /\ "query" \in DOMAIN data

\* line 60
AnalyzeMissingQuery == [status |-> 400, body |-> [error |-> "missing parameter: query"]]

\* Faulty variant of lines 72-75: the result is trimmed to its report fields.
AnalyzeSuccessStripped(res) ==
    [status |-> 200,
     body |-> [success |-> TRUE,
               data |-> [k \in DOMAIN res \ {"partial_failures"} |-> res[k]]]]

\* Faulty variant of lines 72-75: a recorded partial failure is answered as
\* an error.
AnalyzeSuccessStrict(res) ==
    IF res["partial_failures"] # <<>>
    THEN [status |-> 500, body |-> [success |-> FALSE, error |-> "partial failure"]]
    ELSE [status |-> 200, body |-> [success |-> TRUE, data |-> res]]

\* lines 72-75
AnalyzeSuccess(res) == [status |-> 200, body |-> [success |-> TRUE, data |-> res]]

\* Faulty variant of lines 77-82: the exception's text is replaced by the
\* generic message of the 500 handler (lines 298-304).
AnalyzeFailureGeneric(e) ==
    [status |-> 500, body |-> [success |-> FALSE, error |-> "internal server error"]]

\* lines 77-82: str(e) of the exception becomes the error text.
AnalyzeFailure(e) == [status |-> 500, body |-> [success |-> FALSE, error |-> e]]

\* Faulty variant of lines 63-64: the query is kept in one module-level
\* variable shared by all requests.
BindLocalsShared(r, data) ==
    /\ user_query' = [x \in Reqs |-> data["query"]]
    /\ user_profile' = [user_profile EXCEPT ![r] = GetOpt(data, "user_profile")]

\* lines 63-64: the handler's locals are bound per request.
BindLocals(r, data) ==
    /\ user_query' = [user_query EXCEPT ![r] = data["query"]]
    /\ user_profile' = [user_profile EXCEPT ![r] = GetOpt(data, "user_profile")]

\* lines 58-67: receive the request, validate, bind the locals.
AnalyzeReceive(r, data) ==
    /\ apc[r] = "idle"
    /\ abody' = [abody EXCEPT ![r] = data]
    /\ IF AnalyzeValid(data)
       THEN /\ BindLocals(r, data)
            /\ apc' = [apc EXCEPT ![r] = "interpreting"]
            /\ UNCHANGED aresp
       ELSE /\ aresp' = [aresp EXCEPT ![r] = AnalyzeMissingQuery]
            /\ apc' = [apc EXCEPT ![r] = "done"]
            /\ UNCHANGED <<user_query, user_profile>>
    /\ UNCHANGED <<query, fetched, mediaOut, insightOut, calls, result, rvars, pvars>>

\* line 70, engine state Interpreting: no I/O; a malformed query raises
\* MalformedQueryError, which lines 77-82 turn into the failure response.
Interpret(r) ==
    /\ apc[r] = "interpreting"
    /\ IF IsMalformed(user_query[r])
       THEN /\ aresp' = [aresp EXCEPT ![r] = AnalyzeFailure("MalformedQueryError")]
            /\ apc' = [apc EXCEPT ![r] = "done"]
            /\ UNCHANGED query
       ELSE /\ query' = [query EXCEPT ![r] = InterpretQuery(user_query[r], user_profile[r])]
            /\ apc' = [apc EXCEPT ![r] = "fetching"]
            /\ UNCHANGED aresp
    /\ UNCHANGED <<abody, user_query, user_profile, fetched, mediaOut, insightOut, calls, result, rvars, pvars>>

\* line 70, engine state Fetching: the provider calls for the next entity.
FetchEntity(r, outcome) ==
    /\ apc[r] = "fetching"
    /\ Len(fetched[r]) < Len(query[r].resolved_entities)
    /\ fetched' = [fetched EXCEPT ![r] = Append(@, outcome)]
    /\ calls' = [calls EXCEPT ![r] = @ + 1]
    /\ UNCHANGED <<apc, abody, user_query, user_profile, query, mediaOut, insightOut, result, aresp, rvars, pvars>>

\* line 70, end of Fetching: total failure raises DataUnavailableError
\* (lines 77-82 answer); otherwise Media and Insight may start.
FetchJoin(r) ==
    /\ apc[r] = "fetching"
    /\ Len(fetched[r]) = Len(query[r].resolved_entities)
    /\ IF DataTotallyFailed(query[r].resolved_entities, fetched[r])
       THEN /\ aresp' = [aresp EXCEPT ![r] = AnalyzeFailure("DataUnavailableError")]
            /\ apc' = [apc EXCEPT ![r] = "done"]
       ELSE /\ apc' = [apc EXCEPT ![r] = "deriving"]
            /\ UNCHANGED aresp
    /\ UNCHANGED <<abody, user_query, user_profile, query, fetched, mediaOut, insightOut, calls, result, rvars, pvars>>

Dataset(r) == BuildDataset(query[r].resolved_entities, fetched[r])

\* line 70, engine state Deriving-Media.
MediaStage(r, outcome) ==
    /\ apc[r] = "deriving"
    /\ mediaOut[r] = "pending"
    /\ outcome \in MediaOutcomes(Dataset(r))
    /\ mediaOut' = [mediaOut EXCEPT ![r] = outcome]
    /\ UNCHANGED <<apc, abody, user_query, user_profile, query, fetched, insightOut, calls, result, aresp, rvars, pvars>>

\* line 70, engine state Deriving-Insight (may run before or after Media).
InsightStage(r, outcome) ==
    /\ apc[r] = "deriving"
    /\ insightOut[r] = "pending"
    /\ outcome \in InsightOutcomes(Dataset(r))
    /\ insightOut' = [insightOut EXCEPT ![r] = outcome]
    /\ UNCHANGED <<apc, abody, user_query, user_profile, query, fetched, mediaOut, calls, result, aresp, rvars, pvars>>

\* lines 70-75: both branches settled, process_query returns the assembled
\* result and the handler answers with it.
AssembleRespond(r) ==
    /\ apc[r] = "deriving"
    /\ mediaOut[r] # "pending"
    /\ insightOut[r] # "pending"
    /\ result' = [result EXCEPT ![r] =
           AssembleResult(query[r], Dataset(r), mediaOut[r], insightOut[r])]
    /\ aresp' = [aresp EXCEPT ![r] = AnalyzeSuccess(result'[r])]
    /\ apc' = [apc EXCEPT ![r] = "done"]
    /\ UNCHANGED <<abody, user_query, user_profile, query, fetched, mediaOut, insightOut, calls, rvars, pvars>>

AnalyzeStep(r) ==
    \/ \E data \in AnalyzeBodies : AnalyzeReceive(r, data)
    \/ Interpret(r)
    \/ \E o \in FetchOutcomes : FetchEntity(r, o)
    \/ FetchJoin(r)
    \/ \E o \in {"ok", "failed"} : MediaStage(r, o)
    \/ \E o \in {"none", "trend", "abandoned"} : InsightStage(r, o)
    \/ AssembleRespond(r)

\* --------------------------------------------------- report: inputs
SampleResult == AssembleResult(InterpretQuery("AAPL", None), <<"AAPL">>, "ok", "trend")

Opt(S) == {None} \cup {Some(v) : v \in S}

\* A JSON object holding key k iff the optional value o is present.
Field(k, o) == IF o = None THEN EmptyObj ELSE (k :> o[1])

\* Bodies POSTed to /api/generate_report: every subset of the four keys,
\* insights possibly the empty list.
ReportBodies ==
    {Field("query_data", a) @@ Field("analysis_results", b)
        @@ Field("insights", c) @@ Field("user_profile", d) :
        a \in Opt({SampleResult.query_data}),
        b \in Opt({SampleResult.analysis_results}),
        c \in Opt({<<>>, SampleResult.insights}),
        d \in Opt(AnalyzeProfiles)}

NoArgs == [query_data |-> None, analysis_results |-> None, insights |-> None,
           user_profile |-> None]

ReportInit ==
    /\ rbody = EmptyObj
    /\ rresp = NoResp
    /\ agentCalls = 0
    /\ agentArgs = NoArgs
    /\ reports = EmptyObj
    /\ nextId = 1
    /\ gresp = NoResp

\* ------------------------------------------- report agent (from spec.md)
\* ReportStage.compose: the rendered body is a function of the four inputs
\* (spec 4.6: deterministic except for identifier and timestamp).
Render(args) == [rendered_body |-> args]

\* Report.id: generated once per report and never reused (spec 3, 6).
NewReportId == nextId

\* report store save(report) -> stable id (spec 6).
StoreReport(id, report) ==
    /\ reports' = reports @@ (id :> report)
    /\ nextId' = nextId + 1

\* ------------------------------------------------ generate_report (app.py)
\* Faulty variant of line 153: insights is not checked.
RequiredFieldsShort == <<"query_data", "analysis_results">>

\* Faulty variant of line 153: the data model's field names (query,
\* analysis) instead of the API's.
RequiredFieldsRenamed == <<"query", "analysis", "insights">>

\* line 153
RequiredFields == <<"query_data", "analysis_results", "insights">>

\* lines 154-156: the first required field that is not a key of data.
ReportMissingField(data) ==
    LET miss == {i \in DOMAIN RequiredFields : RequiredFields[i] \notin DOMAIN data}
    IN  IF miss = {} THEN None
        ELSE Some(RequiredFields[CHOOSE i \in miss : \A j \in miss : i <= j])

\* line 150
ReportEmptyBody == [status |-> 400, body |-> [error |-> "request data is empty"]]

\* line 156
ReportMissing(field) == [status |-> 400, body |-> [error |-> "missing field", field |-> field]]

\* lines 171-174
ReportSuccess(res) == [status |-> 200, body |-> [success |-> TRUE, data |-> res]]

\* lines 175-179
ReportFailure(e) == [status |-> 500, body |-> [success |-> FALSE, error |-> e]]

\* lines 158-161: the arguments read from data.
ReportArgs(data) ==
    [query_data |-> Some(data["query_data"]),
     analysis_results |-> Some(data["analysis_results"]),
     insights |-> Some(data["insights"]),
     user_profile |-> GetOpt(data, "user_profile")]

\* lines 147-179: the whole handler.  data[key] of an absent key raises
\* KeyError, answered by lines 175-179; the agent either stores a report
\* under a fresh identifier or raises.
GenerateReport(data) ==
    /\ rbody' = data
    /\ IF IsFalsy(data)
       THEN /\ rresp' = ReportEmptyBody
            /\ UNCHANGED <<agentCalls, agentArgs, reports, nextId>>
       ELSE IF ReportMissingField(data) # None
       THEN /\ rresp' = ReportMissing(ReportMissingField(data)[1])
            /\ UNCHANGED <<agentCalls, agentArgs, reports, nextId>>
       ELSE IF ~({"query_data", "analysis_results", "insights"} \subseteq DOMAIN data)
       THEN /\ rresp' = ReportFailure("KeyError")
            /\ UNCHANGED <<agentCalls, agentArgs, reports, nextId>>
       ELSE /\ agentCalls < MaxReports
            /\ agentCalls' = agentCalls + 1
            /\ agentArgs' = ReportArgs(data)
            /\ \E outcome \in {"stored", "raised"} :
                 IF outcome = "stored"
                 THEN /\ StoreReport(NewReportId, Render(ReportArgs(data)))
                      /\ rresp' = ReportSuccess([report_id |-> NewReportId])
                 ELSE /\ rresp' = ReportFailure("report generation failed")
                      /\ UNCHANGED <<reports, nextId>>
    /\ UNCHANGED <<gresp, avars, pvars>>

\* ------------------------------------------------------ get_report (app.py)
\* Faulty variant of lines 185-192: a served report is removed from the store.
GetReportConsume(report_id) ==
    /\ gresp' = IF report_id \in DOMAIN reports
                THEN [status |-> 200, body |-> reports[report_id]]
                ELSE [status |-> 404, body |-> [error |-> "report does not exist"]]
    /\ reports' = [i \in DOMAIN reports \ {report_id} |-> reports[i]]
    /\ UNCHANGED <<rbody, rresp, agentCalls, agentArgs, nextId, avars, pvars>>

\* lines 185-192: look the file up; 404 if absent, else serve it unchanged.
GetReport(report_id) ==
    /\ gresp' = IF report_id \in DOMAIN reports
                THEN [status |-> 200, body |-> reports[report_id]]
                ELSE [status |-> 404, body |-> [error |-> "report does not exist"]]
    /\ UNCHANGED <<rbody, rresp, agentCalls, agentArgs, reports, nextId, avars, pvars>>

ReportIds == 1..(MaxReports + 1)

\* --------------------------------------------------- profiles: inputs
Users == {"u1", "u2"}

\* A JSON string holding a lone surrogate ("\ud800"): json.loads accepts it,
\* the utf-8 file encoder refuses it.
LoneSurrogate == "\\ud800"

JsonStrings == {"low", LoneSurrogate}

\* Profiles a client may supply: {} or {"risk": <string>}.
Profiles == {EmptyObj} \cup {[risk |-> v] : v \in JsonStrings}

\* Bodies POSTed to /api/user_profile/save.
SaveBodies ==
    {EmptyObj}
    \cup {[user_id |-> u] : u \in Users}
    \cup {[user_id |-> u, profile |-> pr] : u \in Users, pr \in Profiles}

NoFile == [exists |-> FALSE, content |-> <<>>]

NoLocals == [kind |-> "none", user_id |-> "", profile_data |-> EmptyObj,
             dirSeen |-> FALSE, buf |-> <<>>, pos |-> 1, off |-> 0]

NoSnap == [ever |-> FALSE, lastOk |-> None, prev |-> None, seen |-> {}]

ProfileInit ==
    /\ dirExists = FALSE
    /\ files = [u \in Users |-> NoFile]
    /\ ppc = [p \in Procs |-> "idle"]
    /\ ploc = [p \in Procs |-> NoLocals]
    /\ presp = [p \in Procs |-> NoResp]
    /\ lastOk = [u \in Users |-> None]
    /\ everSaved = [u \in Users |-> FALSE]
    /\ tainted = [u \in Users |-> FALSE]
    /\ psnap = [p \in Procs |-> NoSnap]

\* --------------------------------------------- json / file system helpers
\* json.dump(profile_data, f, ensure_ascii=False, indent=2) writes the text
\* to f chunk by chunk (line 217).
JsonDump(profile) ==
    IF DOMAIN profile = {} THEN <<"{}">>
    ELSE <<"{risk:", profile["risk"], "}">>

\* json.load (line 243): the profile the text denotes, or None for a
\* JSONDecodeError (empty, truncated or garbled text).
JsonLoad(text) ==
    IF text = <<"{}">> THEN Some(EmptyObj)
    ELSE IF /\ Len(text) = 3
            /\ text[1] = "{risk:"
            /\ text[2] \in JsonStrings
            /\ text[3] = "}"
         THEN Some([risk |-> text[2]])
         ELSE None

\* The utf-8 encoder of the file opened at line 216 accepts the chunk.
Encodable(chunk) == chunk # LoneSurrogate

\* A write of buf at file offset off: bytes past the end extend the file,
\* a gap left by another writer's truncation reads as NUL.
WriteAt(content, off, buf) ==
    IF buf = <<>> THEN content
    ELSE [i \in 1..(IF Len(content) > off + Len(buf) THEN Len(content) ELSE off + Len(buf)) |->
             IF i > off /\ i <= off + Len(buf) THEN buf[i - off]
             ELSE IF i <= Len(content) THEN content[i]
             ELSE "NUL"]

\* os.path.exists(profile_path) (line 235)
ProfileExists(u) == dirExists /\ files[u].exists

SaveActive(q) == ppc[q] \in {"s_dir", "s_mkdir", "s_open", "s_write"}

\* ---------------------------------------------- save_user_profile (app.py)
\* line 205
SaveValid(data) == ~IsFalsy(data) /\ "user_id" \in DOMAIN data

\* line 209: data.get('profile', {})
ProfileOf(data) == IF "profile" \in DOMAIN data THEN data["profile"] ELSE EmptyObj

\* line 206
SaveMissingId == [status |-> 400, body |-> [error |-> "missing user id"]]

\* lines 219-222
SaveSuccess == [status |-> 200, body |-> [success |-> TRUE, message |-> "profile saved"]]

\* lines 223-227, 249-253
ProfileFailure(e) == [status |-> 500, body |-> [success |-> FALSE, error |-> e]]

\* lines 203-209: receive the request, validate, bind the locals.
SaveStart(p, data) ==
    /\ ppc[p] = "idle"
    /\ IF SaveValid(data)
       THEN /\ ppc' = [ppc EXCEPT ![p] = "s_dir"]
            /\ ploc' = [ploc EXCEPT ![p] = [NoLocals EXCEPT !.kind = "save",
                            !.user_id = data["user_id"], !.profile_data = ProfileOf(data)]]
            /\ everSaved' = [everSaved EXCEPT ![data["user_id"]] = TRUE]
            /\ tainted' = [tainted EXCEPT ![data["user_id"]] =
                              @ \/ \E i \in DOMAIN JsonDump(ProfileOf(data)) :
                                      ~Encodable(JsonDump(ProfileOf(data))[i])]
            /\ psnap' = [q \in Procs |->
                            IF ppc[q] = "g_read" /\ ploc[q].user_id = data["user_id"]
                            THEN [psnap[q] EXCEPT !.seen = @ \cup {ProfileOf(data)}]
                            ELSE psnap[q]]
            /\ UNCHANGED presp
       ELSE /\ ppc' = [ppc EXCEPT ![p] = "done"]
            /\ ploc' = [ploc EXCEPT ![p] = [NoLocals EXCEPT !.kind = "save"]]
            /\ presp' = [presp EXCEPT ![p] = SaveMissingId]
            /\ UNCHANGED <<everSaved, tainted, psnap>>
    /\ UNCHANGED <<dirExists, files, lastOk, avars, rvars>>

\* line 212: os.path.exists('user_data')
SaveCheckDir(p) ==
    /\ ppc[p] = "s_dir"
    /\ ploc' = [ploc EXCEPT ![p].dirSeen = dirExists]
    /\ ppc' = [ppc EXCEPT ![p] = IF dirExists THEN "s_open" ELSE "s_mkdir"]
    /\ UNCHANGED <<dirExists, files, presp, lastOk, everSaved, tainted, psnap, avars, rvars>>

\* line 213: os.makedirs raises FileExistsError if the directory appeared
\* since line 212 (lines 223-227 answer).
SaveMkdir(p) ==
    /\ ppc[p] = "s_mkdir"
    /\ IF dirExists
       THEN /\ presp' = [presp EXCEPT ![p] = ProfileFailure("FileExistsError")]
            /\ ppc' = [ppc EXCEPT ![p] = "done"]
            /\ UNCHANGED dirExists
       ELSE /\ dirExists' = TRUE
            /\ ppc' = [ppc EXCEPT ![p] = "s_open"]
            /\ UNCHANGED presp
    /\ UNCHANGED <<files, ploc, lastOk, everSaved, tainted, psnap, avars, rvars>>

\* line 216: open(path, 'w') creates the file or truncates it to length 0.
SaveOpen(p) ==
    /\ ppc[p] = "s_open"
    /\ files' = [files EXCEPT ![ploc[p].user_id] = [exists |-> TRUE, content |-> <<>>]]
    /\ ppc' = [ppc EXCEPT ![p] = "s_write"]
    /\ UNCHANGED <<dirExists, ploc, presp, lastOk, everSaved, tainted, psnap, avars, rvars>>

\* line 217: json.dump writes the next chunk into the file object's buffer;
\* a chunk the encoder refuses raises UnicodeEncodeError, the with block
\* closes the file (flushing what was buffered) and lines 223-227 answer.
SaveWrite(p) ==
    /\ ppc[p] = "s_write"
    /\ ploc[p].pos <= Len(JsonDump(ploc[p].profile_data))
    /\ IF Encodable(JsonDump(ploc[p].profile_data)[ploc[p].pos])
       THEN /\ ploc' = [ploc EXCEPT ![p].buf = Append(@, JsonDump(ploc[p].profile_data)[ploc[p].pos]),
                                    ![p].pos = @ + 1]
            /\ UNCHANGED <<files, ppc, presp>>
       ELSE /\ files' = [files EXCEPT ![ploc[p].user_id].content =
                            WriteAt(@, ploc[p].off, ploc[p].buf)]
            /\ ploc' = [ploc EXCEPT ![p].buf = <<>>]
            /\ presp' = [presp EXCEPT ![p] = ProfileFailure("UnicodeEncodeError")]
            /\ ppc' = [ppc EXCEPT ![p] = "done"]
    /\ UNCHANGED <<dirExists, lastOk, everSaved, tainted, psnap, avars, rvars>>

\* line 217: the file object's buffer is written out whenever it fills up.
SaveFlush(p) ==
    /\ ppc[p] = "s_write"
    /\ ploc[p].buf # <<>>
    /\ ploc[p].pos <= Len(JsonDump(ploc[p].profile_data))
    /\ files' = [files EXCEPT ![ploc[p].user_id].content = WriteAt(@, ploc[p].off, ploc[p].buf)]
    /\ ploc' = [ploc EXCEPT ![p].buf = <<>>, ![p].off = @ + Len(ploc[p].buf)]
    /\ UNCHANGED <<dirExists, ppc, presp, lastOk, everSaved, tainted, psnap, avars, rvars>>

\* lines 216-222: json.dump returned, the with block closes the file
\* (flushing the buffer) and the handler answers success.
SaveClose(p) ==
    /\ ppc[p] = "s_write"
    /\ ploc[p].pos > Len(JsonDump(ploc[p].profile_data))
    /\ files' = [files EXCEPT ![ploc[p].user_id].content = WriteAt(@, ploc[p].off, ploc[p].buf)]
    /\ ploc' = [ploc EXCEPT ![p].buf = <<>>, ![p].off = @ + Len(ploc[p].buf)]
    /\ presp' = [presp EXCEPT ![p] = SaveSuccess]
    /\ lastOk' = [lastOk EXCEPT ![ploc[p].user_id] = Some(ploc[p].profile_data)]
    /\ ppc' = [ppc EXCEPT ![p] = "done"]
    /\ UNCHANGED <<dirExists, everSaved, tainted, psnap, avars, rvars>>

\* ----------------------------------------------- get_user_profile (app.py)
\* lines 236-240
ProfileNotFound ==
    [status |-> 404, body |-> [success |-> FALSE, error |-> "profile does not exist"]]

\* lines 245-248
ProfileFound(profile) == [status |-> 200, body |-> [success |-> TRUE, profile |-> profile]]

\* lines 233-240: the existence check.
GetStart(p, u) ==
    /\ ppc[p] = "idle"
    /\ ploc' = [ploc EXCEPT ![p] = [NoLocals EXCEPT !.kind = "get", !.user_id = u]]
    /\ psnap' = [psnap EXCEPT ![p] =
           [ever |-> everSaved[u],
            lastOk |-> lastOk[u],
            prev |-> IF ProfileExists(u) THEN JsonLoad(files[u].content) ELSE None,
            seen |-> {ploc[q].profile_data : q \in {x \in Procs : SaveActive(x) /\ ploc[x].user_id = u}}]]
    /\ IF ProfileExists(u)
       THEN /\ ppc' = [ppc EXCEPT ![p] = "g_read"]
            /\ UNCHANGED presp
       ELSE /\ ppc' = [ppc EXCEPT ![p] = "done"]
            /\ presp' = [presp EXCEPT ![p] = ProfileNotFound]
    /\ UNCHANGED <<dirExists, files, lastOk, everSaved, tainted, avars, rvars>>

\* lines 242-253: read and parse the file as it is now.
GetRead(p) ==
    /\ ppc[p] = "g_read"
    /\ presp' = [presp EXCEPT ![p] =
           IF JsonLoad(files[ploc[p].user_id].content) = None
           THEN ProfileFailure("JSONDecodeError")
           ELSE ProfileFound(JsonLoad(files[ploc[p].user_id].content)[1])]
    /\ ppc' = [ppc EXCEPT ![p] = "done"]
    /\ UNCHANGED <<dirExists, files, ploc, lastOk, everSaved, tainted, psnap, avars, rvars>>

\* The response is sent and the thread is free to serve the next request.
Return(p) ==
    /\ ppc[p] = "done"
    /\ ppc' = [ppc EXCEPT ![p] = "idle"]
    /\ ploc' = [ploc EXCEPT ![p] = NoLocals]
    /\ presp' = [presp EXCEPT ![p] = NoResp]
    /\ psnap' = [psnap EXCEPT ![p] = NoSnap]
    /\ UNCHANGED <<dirExists, files, lastOk, everSaved, tainted, avars, rvars>>

\* No profile request is being served.
Quiet == \A q \in Procs : ppc[q] \in {"idle", "done"}

\* --------------------------------------------------------- specifications
Init == AnalyzeInit /\ ReportInit /\ ProfileInit

NextAnalyze == \E r \in Reqs : AnalyzeStep(r)

\* Concurrent analyze requests served by one process.
SpecAnalyze == Init /\ [][NextAnalyze]_vars

NextReport ==
    \/ \E data \in ReportBodies : GenerateReport(data)
    \/ \E id \in ReportIds : GetReport(id)

\* generate_report and get_report calls in any order.
SpecReport == Init /\ [][NextReport]_vars

HandoffReport(r) ==
    /\ apc[r] = "done"
    /\ aresp[r].status = 200
    /\ GenerateReport(aresp[r].body.data)

\* One analyze request whose result is passed, unmodified, as the body of
\* generate_report.
NextHandoff == AnalyzeStep(1) \/ HandoffReport(1)

SpecHandoff == Init /\ [][NextHandoff]_vars

ProfileStep(p) ==
    \/ SaveCheckDir(p)
    \/ SaveMkdir(p)
    \/ SaveOpen(p)
    \/ SaveWrite(p)
    \/ SaveFlush(p)
    \/ SaveClose(p)
    \/ GetRead(p)
    \/ Return(p)

\* Profile requests served concurrently by the threads of one process.
NextProfile ==
    \E p \in Procs :
        \/ \E data \in SaveBodies : SaveStart(p, data)
        \/ \E u \in Users : GetStart(p, u)
        \/ ProfileStep(p)

SpecProfile == Init /\ [][NextProfile]_vars

\* Profile requests served one after the other: a request starts only when
\* no other is being served.
NextProfileSeq ==
    \E p \in Procs :
        \/ \E data \in SaveBodies : Quiet /\ SaveStart(p, data)
        \/ \E u \in Users : Quiet /\ GetStart(p, u)
        \/ ProfileStep(p)

SpecProfileSeq == Init /\ [][NextProfileSeq]_vars

\* ------------------------------------------------------------- properties
ReportKeys == {"query_data", "analysis_results", "insights"}

MissingAny(data) == \E f \in ReportKeys : f \notin DOMAIN data

HasQuery(data) == "query" \in DOMAIN data

\* C1: a generate_report request lacking any of query_data, analysis_results,
\* insights (with or without user_profile) is answered 400 with an error, the
\* report agent is not invoked and no report is created; a request holding
\* all three invokes the report agent with exactly the supplied values.
C1_IncompleteInputRejected ==
    [][\A data \in ReportBodies :
          GenerateReport(data) =>
              IF MissingAny(data)
              THEN /\ rresp'.status = 400
                   /\ "error" \in DOMAIN rresp'.body
                   /\ agentCalls' = agentCalls
                   /\ agentArgs' = agentArgs
                   /\ reports' = reports
                   /\ nextId' = nextId
              ELSE /\ agentCalls' = agentCalls + 1
                   /\ agentArgs' = [query_data |-> Some(data["query_data"]),
                                    analysis_results |-> Some(data["analysis_results"]),
                                    insights |-> Some(data["insights"]),
                                    user_profile |-> GetOpt(data, "user_profile")]]_vars

\* A request lacking only insights was rejected after reports were created.
C1_Witness ==
    /\ rresp.status = 400
    /\ DOMAIN rbody = {"query_data", "analysis_results", "user_profile"}
    /\ agentCalls >= 1
    /\ DOMAIN reports # {}

\* C2: when process_query raises, the response is a failure with a reason
\* and no data; when it returns, the response is a success whose data is the
\* returned result, partial_failures included.
C2_TerminalErrorNoData ==
    \A r \in Reqs :
        (apc[r] = "done" /\ HasQuery(abody[r])) =>
            IF \/ IsMalformed(abody[r]["query"])
               \/ DataTotallyFailed(query[r].resolved_entities, fetched[r])
            THEN /\ aresp[r].status = 500
                 /\ DOMAIN aresp[r].body = {"success", "error"}
                 /\ aresp[r].body["success"] = FALSE
                 /\ aresp[r].body["error"] \in {"MalformedQueryError", "DataUnavailableError"}
                 /\ result[r] = EmptyObj
            ELSE /\ aresp[r].status = 200
                 /\ DOMAIN aresp[r].body = {"success", "data"}
                 /\ aresp[r].body["success"] = TRUE
                 /\ aresp[r].body["data"] = result[r]
                 /\ "partial_failures" \in DOMAIN aresp[r].body["data"]
                 /\ aresp[r].body["data"]["partial_failures"] =
                        PartialFailures(mediaOut[r], insightOut[r])

\* One request ended in a terminal error, another in a success that carries
\* partial failures.
C2_Witness ==
    \E r1, r2 \in Reqs :
        /\ apc[r1] = "done" /\ aresp[r1].status = 500
        /\ apc[r2] = "done" /\ aresp[r2].status = 200
        /\ aresp[r2].body["data"]["partial_failures"] # <<>>

\* C3: a request whose query is the empty string ends in a
\* MalformedQueryError, and no provider call is made for it at any point.
C3_EmptyQueryNoProviderCall ==
    \A r \in Reqs :
        (apc[r] # "idle" /\ HasQuery(abody[r]) /\ abody[r]["query"] = "") =>
            /\ calls[r] = 0
            /\ fetched[r] = <<>>
            /\ apc[r] \in {"interpreting", "done"}
            /\ apc[r] = "done" =>
                   /\ aresp[r].status = 500
                   /\ aresp[r].body["success"] = FALSE
                   /\ aresp[r].body["error"] = "MalformedQueryError"

\* An empty query was answered while another request made provider calls.
C3_Witness ==
    \E r1, r2 \in Reqs :
        /\ apc[r1] = "done" /\ HasQuery(abody[r1]) /\ abody[r1]["query"] = ""
        /\ aresp[r1].status = 500
        /\ calls[r2] >= 1

\* C4: every result returned by process_query has the keys query_data,
\* analysis_results and insights, and passed unmodified to generate_report it
\* is not rejected: the report agent is invoked with its three fields.
C4_ResultFeedsReport ==
    /\ aresp[1].status = 200 => ReportKeys \subseteq DOMAIN aresp[1].body["data"]
    /\ rresp.status # 0 =>
           /\ rbody = result[1]
           /\ rresp.status # 400
           /\ agentCalls >= 1
           /\ agentArgs = [query_data |-> Some(result[1]["query_data"]),
                           analysis_results |-> Some(result[1]["analysis_results"]),
                           insights |-> Some(result[1]["insights"]),
                           user_profile |-> None]

\* A result with no insights and a recorded partial failure became a report.
C4_Witness ==
    /\ rresp.status = 200
    /\ rbody["insights"] = <<>>
    /\ rbody["partial_failures"] # <<>>
    /\ DOMAIN reports # {}

SoloResponse(data, outcomes, media, insight) ==
    IF DOMAIN data = {} \/ ~HasQuery(data)
    THEN [status |-> 400, body |-> [error |-> "missing parameter: query"]]
    ELSE IF IsMalformed(data["query"])
    THEN [status |-> 500, body |-> [success |-> FALSE, error |-> "MalformedQueryError"]]
    ELSE LET q == InterpretQuery(data["query"], GetOpt(data, "user_profile"))
         IN  IF DataTotallyFailed(q.resolved_entities, outcomes)
             THEN [status |-> 500, body |-> [success |-> FALSE, error |-> "DataUnavailableError"]]
             ELSE [status |-> 200,
                   body |-> [success |-> TRUE,
                             data |-> AssembleResult(q, BuildDataset(q.resolved_entities, outcomes),
                                                     media, insight)]]

C8_MediaFailureAbsorbed ==
    \A r \in Reqs :
        (Dataset(r) # <<>> /\ mediaOut[r] = "failed") =>
            /\ aresp[r].status \in {0, 200}
            /\ apc[r] = "done" =>
                   /\ aresp[r].status = 200
                   /\ aresp[r].body["success"] = TRUE
                   /\ aresp[r].body["data"]["analysis_results"].media_artifacts = <<>>
                   /\ aresp[r].body["data"]["insights"] =
                          Insights(Dataset(r), insightOut[r], query[r])
                   /\ LET pf == aresp[r].body["data"]["partial_failures"]
                      IN  Cardinality({i \in DOMAIN pf : pf[i].stage = "media"}) = 1

\* Of two entities one was fetched, the media stage failed, the insight stage
\* produced an insight, and the request was answered.
C8_Witness ==
    \E r \in Reqs :
        /\ apc[r] = "done"
        /\ Len(fetched[r]) = 2 /\ Len(Dataset(r)) = 1
        /\ mediaOut[r] = "failed"
        /\ insightOut[r] = "trend"
        /\ aresp[r].body["data"]["insights"] # <<>>

\* C9: when the data stage failed for every resolved entity, the media and
\* insight stages are never started, no result is produced, and the request
\* ends in a DataUnavailableError answered to the caller.
C9_TotalDataFailureTerminal ==
    \A r \in Reqs :
        DataTotallyFailed(query[r].resolved_entities, fetched[r]) =>
            /\ mediaOut[r] = "pending"
            /\ insightOut[r] = "pending"
            /\ result[r] = EmptyObj
            /\ apc[r] \in {"fetching", "done"}
            /\ apc[r] = "done" =>
                   /\ aresp[r].status = 500
                   /\ aresp[r].body["success"] = FALSE
                   /\ aresp[r].body["error"] = "DataUnavailableError"

\* Both entities of a request failed and the request was answered.
C9_Witness ==
    \E r \in Reqs :
        /\ apc[r] = "done"
        /\ fetched[r] = <<"absent", "absent">>
        /\ aresp[r].status = 500

\* C5: with profile requests served one after the other, get_user_profile(u)
\* answers not-found iff no save for u was ever served, and otherwise returns
\* the profile of the latest successful save for u.
C5_LastWriteWins ==
    \A p \in Procs :
        (ppc[p] = "done" /\ ploc[p].kind = "get") =>
            /\ presp[p].status = 404 <=> ~psnap[p].ever
            /\ psnap[p].lastOk # None =>
                   /\ presp[p].status = 200
                   /\ presp[p].body["profile"] = psnap[p].lastOk[1]

\* The same, for user_ids no save ever failed for (every supplied profile
\* was encodable).
ProfileLastWriteWinsUnlessSaveFailed ==
    \A p \in Procs :
        (ppc[p] = "done" /\ ploc[p].kind = "get" /\ ~tainted[ploc[p].user_id]) =>
            /\ presp[p].status = 404 <=> ~psnap[p].ever
            /\ psnap[p].ever =>
                   /\ psnap[p].lastOk # None
                   /\ presp[p].status = 200
                   /\ presp[p].body["profile"] = psnap[p].lastOk[1]

\* C10: a get_user_profile(u) that started when a complete profile for u was
\* stored returns, whatever saves for u run concurrently, that profile or
\* the profile of one of those saves: never an error or not-found.
C10_ReadsAtomic ==
    \A p \in Procs :
        (/\ ppc[p] = "done"
         /\ ploc[p].kind = "get"
         /\ psnap[p].prev # None
         /\ ~tainted[ploc[p].user_id]) =>
            /\ presp[p].status = 200
            /\ presp[p].body["profile"] \in {psnap[p].prev[1]} \cup psnap[p].seen

=============================================================================
